---- MODULE Spec2Model ----
(***************************************************************************)
(* Model of the Scaleway Docker Machine driver (src/scaleway.go).          *)
(*                                                                         *)
(* The driver is single-threaded: the host invokes one method at a time.   *)
(* Every method is one action.  The remote calls a method issues are       *)
(* recorded, in order and with their outcome, in `calls`; the value the    *)
(* method returns is `ret`.  The Scaleway API client, the key generator    *)
(* and the provider are outside the repository: every call to them picks   *)
(* its outcome nondeterministically.                                       *)
(*                                                                         *)
(* Go strings are TLA+ strings, except the tag list and the public key,    *)
(* which the code scans character by character: these are sequences of     *)
(* one-character strings.                                                  *)
(***************************************************************************)
EXTENDS Integers, Sequences, FiniteSets, TLC

VARIABLES
    d,        \* the Driver struct (with the embedded BaseDriver's fields)
    flags,    \* the options handed to the last SetConfigFromFlags
    prov,     \* the provider's reserved IP identifiers
    lastOp,   \* the method that ran last
    calls,    \* the remote calls that method issued, in order
    ret       \* what that method returned

vars == <<d, flags, prov, lastOp, calls, ret>>

(***************************************************************************)
(* Bounds                                                                  *)
(***************************************************************************)
MaxTagLen == 4      \* longest generated tag string
MaxPolls == 2       \* most times the provider still reports a deleted server
MaxIPs == 2         \* most IP addresses the provider holds

(***************************************************************************)
(* Values                                                                  *)
(***************************************************************************)
Nil == "nil"

ErrOrganization == "scaleway driver requires the --scaleway-organization option"
ErrToken == "scaleway driver requires the --scaleway-token option"
ErrKill == "kill is not supported for scaleway driver"
ErrIPNotFound == "IP UUID not found"
ErrIPInvalid == "IP UUID invalid"
ErrNotRunning == "host is not running"
ErrNoIP == "IP address is not set"
ErrClient == "client error"
ErrAPI == "api error"
ErrSSHKey == "ssh key error"

defaultImage == "ubuntu-xenial"
defaultCommercialType == "VC1S"
defaultRegion == "ams1"

\* libmachine's state.State values the driver returns
StateStarting == "Starting"
StateRunning == "Running"
StateStopping == "Stopping"
StateStopped == "Stopped"
StateNone == "None"
StateError == "Error"

\* provider status strings: the four the driver knows and some it does not
Statuses == {"starting", "running", "stopping", "stopped", "", "stopped in place"}

\* IP identifiers of the provider, and some that are nobody's
IPName == <<"ip-1", "ip-2", "ip-3", "ip-4">>
ProviderIPIDs == {IPName[i] : i \in 1..MaxIPs}
AddressOf(id) == "addr-of-" \o id
NotUUID == "not-a-uuid"
IsUUID(id) == id # NotUUID /\ id # ""

NewServerID == "srv-1"

(***************************************************************************)
(* Character strings                                                       *)
(***************************************************************************)
WhiteSpace == {" ", "\t", "\n", "\r"}
TagAlphabet == {"a", "b", ",", " "}

RECURSIVE StringsUpTo(_)
StringsUpTo(n) ==
    IF n = 0 THEN {<<>>}
    ELSE LET shorter == StringsUpTo(n - 1)
         IN shorter \cup {Append(s, c) : s \in shorter, c \in TagAlphabet}

FooBarBaz == <<"f","o","o",",","b","a","r",",","b","a","z">>
FooBlankBar == <<"f","o","o",","," ",","," ","b","a","r">>
SpacedTags == <<" ","a",","," ",",","b","\t">>

\* strings.Split(s, ","): the pieces between the commas, empty ones included
RECURSIVE Split(_)
Split(s) ==
    IF \A i \in 1..Len(s) : s[i] # ","
    THEN <<s>>
    ELSE LET k == CHOOSE i \in 1..Len(s) : s[i] = "," /\ \A j \in 1..(i-1) : s[j] # ","
         IN <<SubSeq(s, 1, k - 1)>> \o Split(SubSeq(s, k + 1, Len(s)))

\* strings.TrimSpace(t)
RECURSIVE TrimLeft(_)
TrimLeft(t) == IF t # <<>> /\ Head(t) \in WhiteSpace THEN TrimLeft(Tail(t)) ELSE t

RECURSIVE TrimRight(_)
TrimRight(t) ==
    IF t # <<>> /\ t[Len(t)] \in WhiteSpace THEN TrimRight(SubSeq(t, 1, Len(t) - 1)) ELSE t

TrimSpace(t) == TrimRight(TrimLeft(t))

\* strings.Join(list, " ")
RECURSIVE Join(_)
Join(list) ==
    IF list = <<>> THEN <<>>
    ELSE IF Len(list) = 1 THEN list[1]
    ELSE list[1] \o <<" ">> \o Join(Tail(list))

\* a plausible slip: the pieces are not trimmed before the emptiness test
RECURSIVE TagListUntrimmedTest(_)
TagListUntrimmedTest(pieces) ==
    IF pieces = <<>> THEN <<>>
    ELSE LET t == Head(pieces)
         IN (IF t # <<>> THEN <<TrimSpace(t)>> ELSE <<>>) \o TagListUntrimmedTest(Tail(pieces))

\* the loop of getTags: trim each piece, keep the non-empty ones
RECURSIVE TagList(_)
TagList(pieces) ==
    IF pieces = <<>> THEN <<>>
    ELSE LET t == TrimSpace(Head(pieces))
         IN (IF t # <<>> THEN <<t>> ELSE <<>>) \o TagList(Tail(pieces))

getTags(tags) == Join(TagList(Split(tags)))

\* sshKeyEnvFormat: drop the last character, spaces to underscores, prefix
ReplaceSpaces(key) == [i \in 1..Len(key) |-> IF key[i] = " " THEN "_" ELSE key[i]]
sshKeyEnvFormat(key) ==
    <<"AUTHORIZED_KEY", "=">> \o ReplaceSpaces(SubSeq(key, 1, Len(key) - 1))

PublicKey == <<"k", " ", "u", "\n">>

(***************************************************************************)
(* Options (drivers.DriverOptions): a key that is absent reads as the zero *)
(* value of its type.                                                      *)
(***************************************************************************)
FlagString(f, key) == IF key \in DOMAIN f THEN f[key] ELSE ""
FlagChars(f, key) == IF key \in DOMAIN f THEN f[key] ELSE <<>>
FlagInt(f, key) == IF key \in DOMAIN f THEN f[key] ELSE 0
FlagBool(f, key) == IF key \in DOMAIN f THEN f[key] ELSE FALSE

testOrganization == "d82f47f0-0613-4012-bfbb-34625b1eecb3"
testToken == "a08090cd-824f-4e82-868e-dba3578111d2"
testSSHPort == 22

\* the options of the test fixture, without the persistent-IP one
BaseFlags(org, tok, ipid, v6, tags) ==
    ("scaleway-ssh-user" :> "scw-user") @@
    ("scaleway-ssh-port" :> testSSHPort) @@
    ("scaleway-organization" :> org) @@
    ("scaleway-token" :> tok) @@
    ("scaleway-server-name" :> "scw-server") @@
    ("scaleway-commercial-type" :> "VC1M") @@
    ("scaleway-image" :> "scw-image") @@
    ("scaleway-region" :> "ams1") @@
    ("scaleway-reserved-ip-id" :> ipid) @@
    ("scaleway-enable-ipv6" :> v6) @@
    ("scaleway-volumes" :> "100G") @@
    ("scaleway-tags" :> tags)

\* the key under which the driver registers and reads the persistent-IP option
PersistentKey == "scaleway-ip-persistent"
\* the key under which the test fixture supplies it
PersistentKeyOfTest == "scaleway-persistent-ip"

\* the persistent-IP option: absent, under the key the driver registers, or
\* under the key the test fixture uses
PersistentChoices ==
    {<<>>} \cup {(k :> b) : k \in {PersistentKey, PersistentKeyOfTest},
                            b \in BOOLEAN}

\* the configurations explored: every combination of present and absent
\* credentials with every kind of reserved-IP identifier, the test fixture
\* with each form of the persistent-IP option, and a few single departures
\* from the fixture
FlagInputs ==
    {BaseFlags(org, tok, ipid, TRUE, FooBarBaz) :
        org \in {"", testOrganization}, tok \in {"", testToken},
        ipid \in {"", IPName[1], IPName[4]}}
    \cup {BaseFlags(testOrganization, testToken, IPName[1], TRUE, FooBarBaz) @@ p :
            p \in PersistentChoices}
    \cup {BaseFlags(testOrganization, testToken, "", TRUE, FooBarBaz) @@ (PersistentKey :> TRUE),
          BaseFlags(testOrganization, testToken, NotUUID, TRUE, FooBarBaz),
          BaseFlags(testOrganization, testToken, "", FALSE, <<>>),
          <<>>}

TagFlagInputs ==
    {BaseFlags(testOrganization, testToken, "", TRUE, tags) @@ (PersistentKeyOfTest :> TRUE) :
        tags \in StringsUpTo(MaxTagLen) \cup {FooBarBaz, FooBlankBar, SpacedTags}}

(***************************************************************************)
(* NewDriver                                                               *)
(***************************************************************************)
NewDriver ==
    [ SSHUser |-> "", SSHPort |-> 0, Organization |-> "", Token |-> "",
      ServerID |-> "", ServerName |-> "", CommercialType |-> defaultCommercialType,
      Image |-> defaultImage, Region |-> defaultRegion, IPID |-> "",
      IPPersistent |-> FALSE, EnableIPv6 |-> FALSE, Volumes |-> "", Tags |-> <<>>,
      IPAddress |-> "", SwarmMaster |-> FALSE, SwarmHost |-> "", SwarmDiscovery |-> "" ]

NoReturn == [err |-> Nil, val |-> ""]

Init ==
    /\ d = NewDriver
    /\ flags = <<>>
    /\ prov = {IPName[1]}
    /\ lastOp = "NewDriver"
    /\ calls = <<>>
    /\ ret = NoReturn

(***************************************************************************)
(* SetConfigFromFlags                                                      *)
(***************************************************************************)
\* the assignments of SetConfigFromFlags and of SetSwarmConfigFromFlags
ConfigFromFlags(dr, f) ==
    [dr EXCEPT
        !.SSHUser = FlagString(f, "scaleway-ssh-user"),
        !.SSHPort = FlagInt(f, "scaleway-ssh-port"),
        !.Organization = FlagString(f, "scaleway-organization"),
        !.Token = FlagString(f, "scaleway-token"),
        !.ServerName = FlagString(f, "scaleway-server-name"),
        !.CommercialType = FlagString(f, "scaleway-commercial-type"),
        !.Image = FlagString(f, "scaleway-image"),
        !.Region = FlagString(f, "scaleway-region"),
        !.IPID = FlagString(f, "scaleway-reserved-ip-id"),
        !.IPPersistent = FlagBool(f, PersistentKey),
        !.EnableIPv6 = FlagBool(f, "scaleway-enable-ipv6"),
        !.Volumes = FlagString(f, "scaleway-volumes"),
        !.Tags = FlagChars(f, "scaleway-tags"),
        !.SwarmMaster = FlagBool(f, "swarm-master"),
        !.SwarmHost = FlagString(f, "swarm-host"),
        !.SwarmDiscovery = FlagString(f, "swarm-discovery")]

\* a plausible slip: the token test is forgotten
ConfigErrorNoTokenTest(dr) ==
    IF dr.Organization = "" THEN ErrOrganization ELSE Nil

\* the two tests at the end of SetConfigFromFlags
ConfigError(dr) ==
    IF dr.Organization = "" THEN ErrOrganization
    ELSE IF dr.Token = "" THEN ErrToken
    ELSE Nil

SetConfig(f) ==
    /\ d' = ConfigFromFlags(d, f)
    /\ flags' = f
    /\ lastOp' = "SetConfigFromFlags"
    /\ calls' = <<>>
    /\ ret' = [err |-> ConfigError(d'), val |-> ""]
    /\ UNCHANGED prov

SetConfigFromFlags == \E f \in FlagInputs : SetConfig(f)

(***************************************************************************)
(* The API client and the remote calls                                     *)
(***************************************************************************)
\* getClient: the client carries the driver's credentials and region
Client(dr) == [Organization |-> dr.Organization, Token |-> dr.Token, Region |-> dr.Region]

\* one remote call issued through a client, with its argument and outcome
Call(client, name, arg, ok, res) ==
    [call |-> name, arg |-> arg, ok |-> ok, res |-> res,
     org |-> client.Organization, token |-> client.Token]

\* what GetServer can answer: an error, or a server record with a status
ServerAnswers ==
    {[ok |-> FALSE, status |-> ""]} \cup {[ok |-> TRUE, status |-> s] : s \in Statuses}

\* what NewIP can answer: an error, or an address the provider did not hold
NewIPAnswers(pr) ==
    {[ok |-> FALSE, id |-> ""]} \cup {[ok |-> TRUE, id |-> i] : i \in ProviderIPIDs \ pr}

\* what GetIPS can answer: an error, or the provider's addresses
GetIPSAnswers == {[ok |-> FALSE, id |-> ""], [ok |-> TRUE, id |-> ""]}

(***************************************************************************)
(* GetState                                                                *)
(***************************************************************************)
\* a plausible slip: an unknown status is reported as the error state
ServerStateUnknownIsError(status) ==
    CASE status = "starting" -> StateStarting
      [] status = "running" -> StateRunning
      [] status = "stopping" -> StateStopping
      [] status = "stopped" -> StateStopped
      [] OTHER -> StateError

\* the switch of GetState
ServerState(status) ==
    CASE status = "starting" -> StateStarting
      [] status = "running" -> StateRunning
      [] status = "stopping" -> StateStopping
      [] status = "stopped" -> StateStopped
      [] OTHER -> StateNone

GetStateRun(dr, clientOK, srv) ==
    IF ~clientOK
    THEN [state |-> StateError, err |-> ErrClient, calls |-> <<>>]
    ELSE LET call == Call(Client(dr), "GetServer", dr.ServerID, srv.ok, srv.status)
         IN IF ~srv.ok
            THEN [state |-> StateError, err |-> ErrAPI, calls |-> <<call>>]
            ELSE [state |-> ServerState(srv.status), err |-> Nil, calls |-> <<call>>]

\* every way GetState can go, over the answers of the client and the provider
GetStateOutcomes(dr) ==
    {GetStateRun(dr, clientOK, srv) : clientOK \in BOOLEAN, srv \in ServerAnswers}

GetState ==
    \E r \in GetStateOutcomes(d) :
        /\ lastOp' = "GetState"
        /\ calls' = r.calls
        /\ ret' = [err |-> r.err, val |-> r.state]
        /\ UNCHANGED <<d, flags, prov>>

(***************************************************************************)
(* postAction, Start, Stop, Restart, Kill                                  *)
(***************************************************************************)
postAction(dr, action, clientOK, actionOK) ==
    IF ~clientOK
    THEN [err |-> ErrClient, calls |-> <<>>]
    ELSE [err |-> IF actionOK THEN Nil ELSE ErrAPI,
          calls |-> <<Call(Client(dr), "PostServerAction", dr.ServerID, actionOK, action)>>]

\* a plausible slip: only the running state is tested
StartFamilyRunningOnly == {StateRunning}
\* the states in which Start has nothing to do
StartFamily == {StateStarting, StateRunning}

\* the states in which Stop has nothing to do
StopFamily == {StateStopping, StateStopped}

PowerRun(dr, family, action, c1, srv, c2, actionOK) ==
    LET g == GetStateRun(dr, c1, srv)
    IN IF g.err # Nil THEN [err |-> g.err, calls |-> g.calls]
       ELSE IF g.state \in family THEN [err |-> Nil, calls |-> g.calls]
       ELSE LET p == postAction(dr, action, c2, actionOK)
            IN [err |-> p.err, calls |-> g.calls \o p.calls]

StartRun(dr, c1, srv, c2, actionOK) == PowerRun(dr, StartFamily, "poweron", c1, srv, c2, actionOK)
StopRun(dr, c1, srv, c2, actionOK) == PowerRun(dr, StopFamily, "poweroff", c1, srv, c2, actionOK)

StartOutcomes(dr) ==
    {StartRun(dr, c1, srv, c2, actionOK) :
        c1 \in BOOLEAN, srv \in ServerAnswers, c2 \in BOOLEAN, actionOK \in BOOLEAN}
StopOutcomes(dr) ==
    {StopRun(dr, c1, srv, c2, actionOK) :
        c1 \in BOOLEAN, srv \in ServerAnswers, c2 \in BOOLEAN, actionOK \in BOOLEAN}
RestartOutcomes(dr) ==
    {postAction(dr, "reboot", clientOK, actionOK) : clientOK \in BOOLEAN, actionOK \in BOOLEAN}

Start ==
    \E r \in StartOutcomes(d) :
        /\ lastOp' = "Start"
        /\ calls' = r.calls
        /\ ret' = [err |-> r.err, val |-> ""]
        /\ UNCHANGED <<d, flags, prov>>

Stop ==
    \E r \in StopOutcomes(d) :
        /\ lastOp' = "Stop"
        /\ calls' = r.calls
        /\ ret' = [err |-> r.err, val |-> ""]
        /\ UNCHANGED <<d, flags, prov>>

Restart ==
    \E r \in RestartOutcomes(d) :
        /\ lastOp' = "Restart"
        /\ calls' = r.calls
        /\ ret' = [err |-> r.err, val |-> ""]
        /\ UNCHANGED <<d, flags, prov>>

Kill ==
    /\ lastOp' = "Kill"
    /\ calls' = <<>>
    /\ ret' = [err |-> ErrKill, val |-> ""]
    /\ UNCHANGED <<d, flags, prov>>

(***************************************************************************)
(* PreCreateCheck                                                          *)
(***************************************************************************)
PreCreateCheckError(dr) ==
    IF dr.IPID # "" /\ ~IsUUID(dr.IPID) THEN ErrIPInvalid ELSE Nil

PreCreateCheck ==
    /\ lastOp' = "PreCreateCheck"
    /\ calls' = <<>>
    /\ ret' = [err |-> PreCreateCheckError(d), val |-> ""]
    /\ UNCHANGED <<d, flags, prov>>

(***************************************************************************)
(* reserveIP and Create                                                    *)
(***************************************************************************)
\* a plausible slip: an identifier that is not found is let through
reserveIPIgnoresNotFound(dr, pr, answer) ==
    IF dr.IPID # ""
    THEN LET call == Call(Client(dr), "GetIPS", "", answer.ok, IF answer.ok THEN pr ELSE {})
         IN IF ~answer.ok
            THEN [d |-> dr, prov |-> pr, err |-> ErrAPI, calls |-> <<call>>]
            ELSE IF dr.IPID \in pr
            THEN [d |-> [dr EXCEPT !.IPAddress = AddressOf(dr.IPID)], prov |-> pr,
                  err |-> Nil, calls |-> <<call>>]
            ELSE [d |-> dr, prov |-> pr, err |-> Nil, calls |-> <<call>>]
    ELSE LET call == Call(Client(dr), "NewIP", "", answer.ok, answer.id)
         IN IF ~answer.ok
            THEN [d |-> dr, prov |-> pr, err |-> ErrAPI, calls |-> <<call>>]
            ELSE [d |-> [dr EXCEPT !.IPID = answer.id, !.IPAddress = AddressOf(answer.id)],
                  prov |-> pr \cup {answer.id}, err |-> Nil, calls |-> <<call>>]

\* a plausible slip: the answer's fields are stored before its error is tested
reserveIPStoresBeforeTest(dr, pr, answer) ==
    IF dr.IPID # ""
    THEN LET call == Call(Client(dr), "GetIPS", "", answer.ok, IF answer.ok THEN pr ELSE {})
         IN IF ~answer.ok
            THEN [d |-> dr, prov |-> pr, err |-> ErrAPI, calls |-> <<call>>]
            ELSE IF dr.IPID \in pr
            THEN [d |-> [dr EXCEPT !.IPAddress = AddressOf(dr.IPID)], prov |-> pr,
                  err |-> Nil, calls |-> <<call>>]
            ELSE [d |-> dr, prov |-> pr, err |-> ErrIPNotFound, calls |-> <<call>>]
    ELSE LET call == Call(Client(dr), "NewIP", "", answer.ok, answer.id)
             stored == [dr EXCEPT !.IPID = answer.id, !.IPAddress = "0.0.0.0"]
         IN IF ~answer.ok
            THEN [d |-> stored, prov |-> pr, err |-> ErrAPI, calls |-> <<call>>]
            ELSE [d |-> [dr EXCEPT !.IPID = answer.id, !.IPAddress = AddressOf(answer.id)],
                  prov |-> pr \cup {answer.id}, err |-> Nil, calls |-> <<call>>]

\* reserveIP: look a given identifier up among the provider's addresses, or
\* allocate a new address
reserveIP(dr, pr, answer) ==
    IF dr.IPID # ""
    THEN LET call == Call(Client(dr), "GetIPS", "", answer.ok, IF answer.ok THEN pr ELSE {})
         IN IF ~answer.ok
            THEN [d |-> dr, prov |-> pr, err |-> ErrAPI, calls |-> <<call>>]
            ELSE IF dr.IPID \in pr
            THEN [d |-> [dr EXCEPT !.IPAddress = AddressOf(dr.IPID)], prov |-> pr,
                  err |-> Nil, calls |-> <<call>>]
            ELSE [d |-> dr, prov |-> pr, err |-> ErrIPNotFound, calls |-> <<call>>]
    ELSE LET call == Call(Client(dr), "NewIP", "", answer.ok, answer.id)
         IN IF ~answer.ok
            THEN [d |-> dr, prov |-> pr, err |-> ErrAPI, calls |-> <<call>>]
            ELSE [d |-> [dr EXCEPT !.IPID = answer.id, !.IPAddress = AddressOf(answer.id)],
                  prov |-> pr \cup {answer.id}, err |-> Nil, calls |-> <<call>>]

\* the boot-time environment string: the key, then the tags if there are any
ServerEnv(dr, publicKey) ==
    IF dr.Tags # <<>>
    THEN Join(<<sshKeyEnvFormat(publicKey), getTags(dr.Tags)>>)
    ELSE sshKeyEnvFormat(publicKey)

ServerConfig(dr, publicKey) ==
    [Name |-> dr.ServerName, CommercialType |-> dr.CommercialType, ImageName |-> dr.Image,
     IP |-> dr.IPAddress, EnableIPV6 |-> dr.EnableIPv6, AdditionalVolumes |-> dr.Volumes,
     Env |-> ServerEnv(dr, publicKey)]

\* Create, from the key generation to the start call.  api.CreateServer's
\* first result is assigned to ServerID whatever its second is; on an error
\* it is the empty string.
CreateRun(dr, pr, keyOK, clientOK, ipAnswer, createOK, startOK) ==
    IF ~keyOK THEN [d |-> dr, prov |-> pr, err |-> ErrSSHKey, calls |-> <<>>]
    ELSE IF ~clientOK THEN [d |-> dr, prov |-> pr, err |-> ErrClient, calls |-> <<>>]
    ELSE LET ip == reserveIP(dr, pr, ipAnswer)
         IN IF ip.err # Nil THEN ip
            ELSE LET id == IF createOK THEN NewServerID ELSE ""
                     created == [ip.d EXCEPT !.ServerID = id]
                     create == Call(Client(ip.d), "CreateServer",
                                    ServerConfig(ip.d, PublicKey), createOK, id)
                     start == Call(Client(created), "StartServer", id, startOK, "")
                 IN IF ~createOK
                    THEN [d |-> created, prov |-> ip.prov, err |-> ErrAPI,
                          calls |-> ip.calls \o <<create>>]
                    ELSE [d |-> created, prov |-> ip.prov,
                          err |-> IF startOK THEN Nil ELSE ErrAPI,
                          calls |-> ip.calls \o <<create, start>>]

CreateOutcomes(dr, pr) ==
    {CreateRun(dr, pr, keyOK, clientOK, ipAnswer, createOK, startOK) :
        keyOK \in BOOLEAN, clientOK \in BOOLEAN, createOK \in BOOLEAN, startOK \in BOOLEAN,
        ipAnswer \in (IF dr.IPID # "" THEN GetIPSAnswers ELSE NewIPAnswers(pr))}

Create ==
    \E r \in CreateOutcomes(d, prov) :
        /\ d' = r.d
        /\ prov' = r.prov
        /\ lastOp' = "Create"
        /\ calls' = r.calls
        /\ ret' = [err |-> r.err, val |-> ""]
        /\ UNCHANGED flags

(***************************************************************************)
(* Remove                                                                  *)
(***************************************************************************)
\* the get-server calls of the polling loop: `polls` that still find the
\* server, then the one that fails
RECURSIVE PollCalls(_, _)
PollCalls(dr, polls) ==
    IF polls = 0 THEN <<Call(Client(dr), "GetServer", dr.ServerID, FALSE, "")>>
    ELSE <<Call(Client(dr), "GetServer", dr.ServerID, TRUE, "stopping")>>
         \o PollCalls(dr, polls - 1)

\* the test that guards the release of the address
KeepsIP(dr) == dr.IPPersistent

\* what Remove returns when it cannot obtain a client
RemoveClientError == Nil

RemoveRun(dr, pr, clientOK, deleteOK, polls, releaseOK) ==
    IF ~clientOK THEN [prov |-> pr, err |-> RemoveClientError, calls |-> <<>>]
    ELSE LET delete == Call(Client(dr), "DeleteServerForce", dr.ServerID, deleteOK, "")
             release == Call(Client(dr), "DeleteIP", dr.IPID, releaseOK, "")
         IN IF ~deleteOK THEN [prov |-> pr, err |-> ErrAPI, calls |-> <<delete>>]
            ELSE IF KeepsIP(dr)
            THEN [prov |-> pr, err |-> Nil, calls |-> <<delete>> \o PollCalls(dr, polls)]
            ELSE IF ~releaseOK
            THEN [prov |-> pr, err |-> ErrAPI,
                  calls |-> <<delete>> \o PollCalls(dr, polls) \o <<release>>]
            ELSE [prov |-> pr \ {dr.IPID}, err |-> Nil,
                  calls |-> <<delete>> \o PollCalls(dr, polls) \o <<release>>]

RemoveOutcomes(dr, pr) ==
    {RemoveRun(dr, pr, clientOK, deleteOK, polls, releaseOK) :
        clientOK \in BOOLEAN, deleteOK \in BOOLEAN, releaseOK \in BOOLEAN,
        polls \in 0..MaxPolls}

Remove ==
    \E r \in RemoveOutcomes(d, prov) :
        /\ prov' = r.prov
        /\ lastOp' = "Remove"
        /\ calls' = r.calls
        /\ ret' = [err |-> r.err, val |-> ""]
        /\ UNCHANGED <<d, flags>>

(***************************************************************************)
(* GetURL, GetSSHHostname                                                  *)
(***************************************************************************)
\* BaseDriver.GetIP: the stored address, an error when there is none
GetIP(dr) ==
    IF dr.IPAddress = "" THEN [err |-> ErrNoIP, val |-> ""]
    ELSE [err |-> Nil, val |-> dr.IPAddress]

\* drivers.MustBeRunning, after its state query succeeded
MustBeRunning(st) == IF st # StateRunning THEN ErrNotRunning ELSE Nil

DockerPort == "2376"

\* a plausible slip: GetURL queries the state but does not test it
GetURLRunNoStateTest(dr, clientOK, srv) ==
    LET g == GetStateRun(dr, clientOK, srv)
        ip == GetIP(dr)
    IN IF g.err # Nil THEN [err |-> g.err, val |-> "", calls |-> g.calls]
       ELSE IF ip.err # Nil THEN [err |-> ip.err, val |-> "", calls |-> g.calls]
       ELSE [err |-> Nil, val |-> "tcp://" \o ip.val \o ":" \o DockerPort, calls |-> g.calls]

GetURLRun(dr, clientOK, srv) ==
    LET g == GetStateRun(dr, clientOK, srv)
        ip == GetIP(dr)
    IN IF g.err # Nil THEN [err |-> g.err, val |-> "", calls |-> g.calls]
       ELSE IF MustBeRunning(g.state) # Nil
       THEN [err |-> MustBeRunning(g.state), val |-> "", calls |-> g.calls]
       ELSE IF ip.err # Nil THEN [err |-> ip.err, val |-> "", calls |-> g.calls]
       ELSE [err |-> Nil, val |-> "tcp://" \o ip.val \o ":" \o DockerPort, calls |-> g.calls]

GetURLOutcomes(dr) ==
    {GetURLRun(dr, clientOK, srv) : clientOK \in BOOLEAN, srv \in ServerAnswers}

GetURL ==
    \E r \in GetURLOutcomes(d) :
        /\ lastOp' = "GetURL"
        /\ calls' = r.calls
        /\ ret' = [err |-> r.err, val |-> r.val]
        /\ UNCHANGED <<d, flags, prov>>

GetSSHHostname ==
    /\ lastOp' = "GetSSHHostname"
    /\ calls' = <<>>
    /\ ret' = GetIP(d)
    /\ UNCHANGED <<d, flags, prov>>

(***************************************************************************)
(* The tag list, as the test reads it                                      *)
(***************************************************************************)
Tags ==
    /\ lastOp' = "tags"
    /\ calls' = <<>>
    /\ ret' = [err |-> Nil, val |-> getTags(d.Tags)]
    /\ UNCHANGED <<d, flags, prov>>

Next ==
    \/ PreCreateCheck
    \/ Create
    \/ Remove
    \/ GetURL
    \/ GetSSHHostname
    \/ Tags
    \/ SetConfigFromFlags
    \/ GetState
    \/ Start
    \/ Stop
    \/ Restart
    \/ Kill

Spec == Init /\ [][Next]_vars

\* the tag list alone, over every short tag string
SetTags == \E f \in TagFlagInputs : SetConfig(f)
NextTags == SetTags \/ Tags
SpecTags == Init /\ [][NextTags]_vars

(***************************************************************************)
(* Helpers of the properties                                               *)
(***************************************************************************)
Issued(cs, name) == {i \in 1..Len(cs) : cs[i].call = name}
PowerCalls(cs) == Issued(cs, "PostServerAction")
KnownStatuses == {"starting", "running", "stopping", "stopped"}
FlagOrganization == FlagString(flags, "scaleway-organization")
FlagToken == FlagString(flags, "scaleway-token")

(***************************************************************************)
(* C1: SetConfigFromFlags returns a configuration error whenever the       *)
(* supplied organization or the supplied token is empty, whatever the      *)
(* other options are, and returns success when both are non-empty.         *)
(***************************************************************************)
C1_ConfigRejectsMissingCredentials ==
    lastOp = "SetConfigFromFlags" =>
        /\ (FlagOrganization = "" \/ FlagToken = "") => ret.err \in {ErrOrganization, ErrToken}
        /\ (FlagOrganization # "" /\ FlagToken # "") => ret.err = Nil

C1_Witness ==
    /\ lastOp = "SetConfigFromFlags"
    /\ FlagOrganization # ""
    /\ FlagToken = ""
    /\ ret.err = ErrToken

(***************************************************************************)
(* C2: when SetConfigFromFlags succeeds, every option the test supplies    *)
(* is found verbatim in its driver field; in particular a persistent-IP    *)
(* option supplied as true under the key scaleway-persistent-ip leaves     *)
(* the driver's persistent-IP setting true.                                *)
(***************************************************************************)
C2_EveryOptionCopied ==
    (lastOp = "SetConfigFromFlags" /\ ret.err = Nil) =>
        /\ d.SSHUser = flags["scaleway-ssh-user"]
        /\ d.SSHPort = flags["scaleway-ssh-port"]
        /\ d.Organization = flags["scaleway-organization"]
        /\ d.Token = flags["scaleway-token"]
        /\ d.ServerName = flags["scaleway-server-name"]
        /\ d.CommercialType = flags["scaleway-commercial-type"]
        /\ d.Image = flags["scaleway-image"]
        /\ d.Region = flags["scaleway-region"]
        /\ d.IPID = flags["scaleway-reserved-ip-id"]
        /\ d.EnableIPv6 = flags["scaleway-enable-ipv6"]
        /\ d.Volumes = flags["scaleway-volumes"]
        /\ d.Tags = flags["scaleway-tags"]
        /\ PersistentKeyOfTest \in DOMAIN flags => d.IPPersistent = flags[PersistentKeyOfTest]

(***************************************************************************)
(* C3 as stated: Start (Stop) returns success without a power action when  *)
(* the state it queries is starting or running (stopping or stopped); when *)
(* the query succeeds with another state exactly one power action, poweron *)
(* (poweroff), is issued; when the query fails none is issued.             *)
(***************************************************************************)
PowerFamily(op) == IF op = "Start" THEN {"starting", "running"} ELSE {"stopping", "stopped"}
PowerAction(op) == IF op = "Start" THEN "poweron" ELSE "poweroff"
QueryFailed(cs) == cs = <<>> \/ (cs[1].call = "GetServer" /\ ~cs[1].ok)
QueryAnswered(cs) == cs # <<>> /\ cs[1].call = "GetServer" /\ cs[1].ok

C3_ExactlyOnePowerAction ==
    lastOp \in {"Start", "Stop"} =>
        /\ QueryFailed(calls) => (PowerCalls(calls) = {} /\ ret.err # Nil)
        /\ (QueryAnswered(calls) /\ calls[1].res \in PowerFamily(lastOp)) =>
                (PowerCalls(calls) = {} /\ ret.err = Nil)
        /\ (QueryAnswered(calls) /\ calls[1].res \notin PowerFamily(lastOp)) =>
                (PowerCalls(calls) = {2} /\ calls[2].res = PowerAction(lastOp))

(***************************************************************************)
(* C3 as amended: as above, but outside the family Start and Stop first    *)
(* obtain a client for the action: when that fails no power action is      *)
(* issued and the client's error is returned; otherwise exactly one power  *)
(* action, poweron (poweroff), is issued and its outcome is returned.      *)
(***************************************************************************)
C3_PowerActionUnlessClientFails ==
    lastOp \in {"Start", "Stop"} =>
        /\ QueryFailed(calls) \/ QueryAnswered(calls)
        /\ QueryFailed(calls) => (PowerCalls(calls) = {} /\ ret.err # Nil)
        /\ (QueryAnswered(calls) /\ calls[1].res \in PowerFamily(lastOp)) =>
                (PowerCalls(calls) = {} /\ ret.err = Nil)
        /\ (QueryAnswered(calls) /\ calls[1].res \notin PowerFamily(lastOp)) =>
                \/ PowerCalls(calls) = {} /\ ret.err = ErrClient
                \/ /\ PowerCalls(calls) = {2}
                   /\ calls[2].res = PowerAction(lastOp)
                   /\ calls[2].arg = d.ServerID
                   /\ (ret.err = Nil) = calls[2].ok

C3_Witness ==
    /\ lastOp = "Start"
    /\ QueryAnswered(calls)
    /\ calls[1].res = "stopped"
    /\ PowerCalls(calls) = {2}
    /\ calls[2].res = "poweron"
    /\ ret.err = Nil

(***************************************************************************)
(* C4: in every execution of Create the server-create call is issued only  *)
(* after IP reservation succeeded: a new IP allocated when the reserved-IP *)
(* identifier was empty, the identifier found among the provider's         *)
(* addresses otherwise; when allocation fails or the identifier does not   *)
(* resolve, Create returns an error and issues neither the server-create   *)
(* nor the start call.                                                     *)
(***************************************************************************)
ReservedAt(cs, j, ipid) ==
    IF ipid = ""
    THEN cs[j].call = "NewIP" /\ cs[j].ok
    ELSE cs[j].call = "GetIPS" /\ cs[j].ok /\ ipid \in cs[j].res

ReservationFailedAt(cs, j, ipid) ==
    \/ cs[j].call = "NewIP" /\ ~cs[j].ok
    \/ cs[j].call = "GetIPS" /\ ~cs[j].ok
    \/ cs[j].call = "GetIPS" /\ cs[j].ok /\ ipid \notin cs[j].res

C4_CreateAfterReservation ==
    [][lastOp' = "Create" =>
        /\ \A i \in Issued(calls', "CreateServer") \cup Issued(calls', "StartServer") :
              \E j \in 1..(i - 1) : ReservedAt(calls', j, d.IPID)
        /\ (\E j \in 1..Len(calls') : ReservationFailedAt(calls', j, d.IPID)) =>
              /\ ret'.err # Nil
              /\ Issued(calls', "CreateServer") = {}
              /\ Issued(calls', "StartServer") = {}
        /\ \A j \in Issued(calls', "NewIP") : calls'[j].ok => calls'[j].res \in prov' \ prov
      ]_vars

C4_Witness ==
    /\ lastOp = "Create"
    /\ Len(calls) >= 2
    /\ calls[1].call = "GetIPS"
    /\ calls[1].ok
    /\ d.IPID \in calls[1].res
    /\ calls[2].call = "CreateServer"

(***************************************************************************)
(* C5: Remove releases the IP address if and only if IP persistence is not *)
(* configured, and only after the forced delete was accepted and a         *)
(* get-server call reported the server gone: a Remove that returns success *)
(* with persistence off has issued the IP-delete call for the driver's IP  *)
(* identifier after the forced delete; with persistence on no IP-delete    *)
(* call is issued.                                                         *)
(***************************************************************************)
C5_IPReleasedUnlessPersistent ==
    lastOp = "Remove" =>
        /\ d.IPPersistent => Issued(calls, "DeleteIP") = {}
        /\ \A k \in Issued(calls, "DeleteIP") :
              /\ calls[k].arg = d.IPID
              /\ \E i \in 1..(k - 1) : calls[i].call = "DeleteServerForce" /\ calls[i].ok
              /\ \E j \in 1..(k - 1) : calls[j].call = "GetServer" /\ ~calls[j].ok
        /\ (ret.err = Nil /\ ~d.IPPersistent) => Issued(calls, "DeleteIP") # {}

(***************************************************************************)
(* C6: GetState is a total function of the fetch outcome and the status:   *)
(* a failed fetch gives the error state with an error; a successful one    *)
(* gives starting, running, stopping or stopped for the status of that     *)
(* name and none, with no error, for every other status.                   *)
(***************************************************************************)
C6_StateTranslationTotal ==
    lastOp = "GetState" =>
        /\ QueryFailed(calls) \/ QueryAnswered(calls)
        /\ QueryFailed(calls) => (ret.val = StateError /\ ret.err # Nil)
        /\ QueryAnswered(calls) =>
              /\ ret.err = Nil
              /\ calls[1].res = "starting" => ret.val = StateStarting
              /\ calls[1].res = "running" => ret.val = StateRunning
              /\ calls[1].res = "stopping" => ret.val = StateStopping
              /\ calls[1].res = "stopped" => ret.val = StateStopped
              /\ calls[1].res \notin KnownStatuses => ret.val = StateNone

C6_Witness ==
    /\ lastOp = "GetState"
    /\ QueryAnswered(calls)
    /\ calls[1].res = ""
    /\ ret.val = StateNone
    /\ ret.err = Nil

(***************************************************************************)
(* C7 as stated: GetURL and GetSSHHostname return an endpoint only when    *)
(* the state reported for the server is running; for any other state, or a *)
(* failed query, each returns an error.                                    *)
(***************************************************************************)
ReportedRunning(cs) == QueryAnswered(cs) /\ cs[1].res = "running"

C7_EndpointOnlyWhenRunning ==
    lastOp \in {"GetURL", "GetSSHHostname"} =>
        (ret.err = Nil => ReportedRunning(calls))

(***************************************************************************)
(* C7 as amended: GetURL returns an endpoint only when the state it        *)
(* queries is running, and an error for any other state or a failed query. *)
(* GetSSHHostname queries no state: it returns the stored IP address       *)
(* whenever there is one, and an error only when there is none.            *)
(***************************************************************************)
C7_OnlyGetURLRequiresRunning ==
    /\ lastOp = "GetURL" =>
          /\ QueryFailed(calls) \/ QueryAnswered(calls)
          /\ ~ReportedRunning(calls) => (ret.err # Nil /\ ret.val = "")
          /\ ReportedRunning(calls) => (ret.err = Nil) = (d.IPAddress # "")
          /\ ret.err = Nil => ret.val = "tcp://" \o d.IPAddress \o ":2376"
    /\ lastOp = "GetSSHHostname" =>
          /\ calls = <<>>
          /\ (ret.err = Nil) = (d.IPAddress # "")
          /\ ret.err = Nil => ret.val = d.IPAddress

C7_Witness ==
    /\ lastOp = "GetURL"
    /\ QueryAnswered(calls)
    /\ calls[1].res = "stopped"
    /\ d.IPAddress # ""
    /\ ret.err = ErrNotRunning

(***************************************************************************)
(* C8: whenever a driver operation attempts a remote call, the             *)
(* organization and the token the driver holds are non-empty; a driver     *)
(* whose credentials are missing fails with a configuration error and      *)
(* issues no remote call.                                                  *)
(***************************************************************************)
Configured(dr) == dr.Organization # "" /\ dr.Token # ""
RemoteOps == {"Create", "GetState", "Start", "Stop", "Restart", "Remove"}

C8_NoRemoteCallWithoutCredentials ==
    /\ \A i \in 1..Len(calls) :
          /\ calls[i].org # "" /\ calls[i].token # ""
          /\ Configured(d)
    /\ (lastOp \in RemoteOps /\ ~Configured(d)) =>
          (calls = <<>> /\ ret.err # Nil)

(***************************************************************************)
(* C9 as stated: after configuration no operation changes a configuration  *)
(* field other than the server identifier, the IP identifier and the IP    *)
(* address; each of these is written at most once and only after the       *)
(* remote server creation succeeded; a Create that fails leaves all three  *)
(* as they were.                                                           *)
(***************************************************************************)
OtherFieldsKept(old, new) ==
    new = [old EXCEPT !.ServerID = new.ServerID, !.IPID = new.IPID,
                      !.IPAddress = new.IPAddress]
ThreeKept(old, new) ==
    old.ServerID = new.ServerID /\ old.IPID = new.IPID /\ old.IPAddress = new.IPAddress
ServerCreated(cs) == \E i \in Issued(cs, "CreateServer") : cs[i].ok

C9_WrittenOnceAfterServerCreation ==
    [][(Configured(d) /\ lastOp' # "SetConfigFromFlags") =>
        /\ OtherFieldsKept(d, d')
        /\ ~ThreeKept(d, d') => (lastOp' = "Create" /\ ServerCreated(calls'))
        /\ (lastOp' = "Create" /\ ret'.err # Nil) => ThreeKept(d, d')
        /\ d.ServerID # "" => d'.ServerID = d.ServerID
        /\ d.IPID # "" => d'.IPID = d.IPID
        /\ d.IPAddress # "" => d'.IPAddress = d.IPAddress
      ]_vars

(***************************************************************************)
(* C9 as amended: no operation but Create changes a field of the driver,   *)
(* and Create changes only the server identifier, the IP identifier and    *)
(* the IP address.  The IP identifier and address are written by the IP    *)
(* reservation, before the server-create call and whether or not that call *)
(* succeeds; a non-empty IP identifier is never overwritten.  The server   *)
(* identifier is written only by the server-create call, with its result.  *)
(* A Create that fails before the IP reservation succeeded leaves all      *)
(* three as they were.                                                     *)
(***************************************************************************)
ReservationSucceeded(cs, ipid) == \E j \in 1..Len(cs) : ReservedAt(cs, j, ipid)

C9_WrittenByReservationAndCreation ==
    [][lastOp' # "SetConfigFromFlags" =>
        /\ OtherFieldsKept(d, d')
        /\ d' # d => lastOp' = "Create"
        /\ d.IPID # "" => d'.IPID = d.IPID
        /\ (d'.IPID # d.IPID \/ d'.IPAddress # d.IPAddress) =>
              ReservationSucceeded(calls', d.IPID)
        /\ d'.ServerID # d.ServerID => Issued(calls', "CreateServer") # {}
        /\ \A i \in Issued(calls', "CreateServer") : d'.ServerID = calls'[i].res
        /\ (lastOp' = "Create" /\ ~ReservationSucceeded(calls', d.IPID)) =>
              (ret'.err # Nil /\ d' = d)
        /\ (lastOp' = "Create" /\ ReservationSucceeded(calls', d.IPID)) =>
              (d'.IPID # "" /\ d'.IPAddress = AddressOf(d'.IPID))
      ]_vars

C9_Witness ==
    /\ lastOp = "Create"
    /\ Configured(d)
    /\ ret.err # Nil
    /\ Len(calls) = 2
    /\ calls[1].call = "NewIP"
    /\ calls[2].call = "CreateServer"
    /\ ~calls[2].ok
    /\ d.IPID = calls[1].res
    /\ d.IPAddress # ""
    /\ d.ServerID = ""

(***************************************************************************)
(* C10: tag formatting returns the entries obtained by splitting the tag   *)
(* string on commas and trimming surrounding whitespace, the empty ones    *)
(* dropped, in their order, joined by single spaces: "foo,bar,baz" gives   *)
(* "foo bar baz", "foo, , bar" gives "foo bar", the empty string gives the *)
(* empty string, and a clean single tag is returned unchanged.             *)
(***************************************************************************)
\* the entries of s, by position: entry c starts after comma c (or at 1 for
\* c = 0) and ends before the next comma
EntryStarts(s) == {0} \cup {i \in 1..Len(s) : s[i] = ","}
EntryEnd(s, c) ==
    LET later == {k \in 1..Len(s) : s[k] = "," /\ k > c}
    IN IF later = {} THEN Len(s) ELSE (CHOOSE k \in later : \A m \in later : k <= m) - 1
\* the positions of entry c that survive the trimming: those between its
\* first and its last character that is not whitespace
EntryKept(s, c) ==
    LET solid == {i \in (c + 1)..EntryEnd(s, c) : s[i] \notin WhiteSpace}
    IN {i \in (c + 1)..EntryEnd(s, c) : (\E a \in solid : a <= i) /\ (\E b \in solid : i <= b)}
KeptPositions(s) == UNION {EntryKept(s, c) : c \in EntryStarts(s)}
KeptEntries(s) == {c \in EntryStarts(s) : EntryKept(s, c) # {}}
\* where position i of s lands in the output: after the kept characters
\* before it and one space for every kept entry that ended before it
Landing(s, i) ==
    Cardinality({k \in KeptPositions(s) : k < i})
    + Cardinality({c \in KeptEntries(s) : EntryEnd(s, c) < i}) + 1
IsJoinedEntries(s, out) ==
    /\ Len(out) = Cardinality(KeptPositions(s))
                  + (IF KeptEntries(s) = {} THEN 0 ELSE Cardinality(KeptEntries(s)) - 1)
    /\ \A i \in KeptPositions(s) : out[Landing(s, i)] = s[i]
    /\ \A p \in (1..Len(out)) \ {Landing(s, i) : i \in KeptPositions(s)} : out[p] = " "
IsCleanSingleTag(s) == s # <<>> /\ \A i \in 1..Len(s) : s[i] \notin WhiteSpace \cup {","}

C10_TagsSplitTrimmedJoined ==
    lastOp = "tags" =>
        /\ IsJoinedEntries(d.Tags, ret.val)
        /\ d.Tags = FooBarBaz => ret.val = <<"f","o","o"," ","b","a","r"," ","b","a","z">>
        /\ d.Tags = FooBlankBar => ret.val = <<"f","o","o"," ","b","a","r">>
        /\ d.Tags = <<>> => ret.val = <<>>
        /\ IsCleanSingleTag(d.Tags) => ret.val = d.Tags

C10_Witness ==
    /\ lastOp = "tags"
    /\ d.Tags = FooBlankBar
    /\ ret.val = <<"f","o","o"," ","b","a","r">>

(***************************************************************************)
(* C11: Remove returns success only if, in that invocation, the forced     *)
(* delete of the server was issued and accepted by the provider; every     *)
(* failure that keeps the forced delete from being issued or accepted, the *)
(* failure to obtain the API client included, is returned as an error, and *)
(* then no IP-delete call is issued.                                       *)
(***************************************************************************)
DeleteAccepted(cs) == \E i \in Issued(cs, "DeleteServerForce") : cs[i].ok

C11_RemoveSucceedsOnlyAfterDelete ==
    lastOp = "Remove" =>
        /\ ret.err = Nil => DeleteAccepted(calls)
        /\ ~DeleteAccepted(calls) => (ret.err # Nil /\ Issued(calls, "DeleteIP") = {})
====
